---- MODULE Spec2Model ----
(***************************************************************************)
(* A model of the cooperative thread pool of src/runtime/                  *)
(* thread_pool_common.h: the work queue, the dispatch loop shared by pool  *)
(* workers and owners, the enqueue protocol and the counting semaphores.   *)
(*                                                                         *)
(* Everything a thread does between taking the queue mutex and giving it   *)
(* up (unlock or cond_wait) is one step, except that every atomic          *)
(* operation on a semaphore and every cond_wait is a step of its own:      *)
(* semaphores are released by task bodies that do not hold the mutex.      *)
(* Condition variables have no spurious wakeups in this model.             *)
(***************************************************************************)
EXTENDS Integers, Sequences, FiniteSets, TLC

VARIABLES
    scen,      \* the program that runs: environment, top-level call, task bodies
    wq,        \* work_queue_t (the job stack is the sequence wq.jobs, top first)
    job,       \* the struct work objects, by job id
    sem,       \* halide_semaphore_impl_t::value, by semaphore id
    mutex,     \* holder of work_queue.mutex, or NoThread
    pc,        \* where each thread is
    fr,        \* each thread's stack of dispatch-loop frames
    ran,       \* history: per job, the indices handed to the task function, in order
    released,  \* history: per semaphore, the total amount released
    acquired,  \* history: per semaphore, the total amount taken by try_acquires that succeeded
    ret,       \* history: per call, the status it returned
    unlocked,  \* history: the work-queue fields the last step used without the mutex
    ub         \* the run has hit undefined behaviour (garbage call, dangling Job)

vars == <<scen, wq, job, sem, mutex, pc, fr, ran, released, acquired, ret, unlocked, ub>>

----------------------------------------------------------------------------
(* Bounds of the model *)

MaxWorkers == 3      \* pool threads the model can hold
MaxExtent == 2       \* largest loop extent of a flat scenario
MaxDesired == 3      \* largest HL_NUM_THREADS of a scenario

(* Program constants *)

MAX_THREADS == 256
NoThread == -1

Threads == 0..MaxWorkers          \* 0 is the thread that calls into the pool
Workers == 1..MaxWorkers

----------------------------------------------------------------------------
(* Generic helpers *)

Min(S) == CHOOSE x \in S : \A y \in S : x <= y
Max(S) == CHOOSE x \in S : \A y \in S : x >= y

RECURSIVE SumSeq(_)
SumSeq(q) == IF q = <<>> THEN 0 ELSE Head(q) + SumSeq(Tail(q))

RemoveAt(q, p) == SubSeq(q, 1, p - 1) \o SubSeq(q, p + 1, Len(q))

Range(q) == {q[i] : i \in 1..Len(q)}

CallOf(jid) == SubSeq(jid, 1, Len(jid) - 1)

\* F applied to the value of e: e is computed once, as a statement that
\* assigns a local is executed once
Then(e, F(_)) == CHOOSE r \in {F(x) : x \in {e}} : TRUE

----------------------------------------------------------------------------
(* Task descriptors and task bodies.  A body either just returns a status, *)
(* or releases a semaphore once, or calls back into the pool.              *)

Leaf == [op |-> "ret"]
Rel(s, n) == [op |-> "rel", sem |-> s, n |-> n]
CallBody(cd) == [op |-> "call", call |-> cd]

\* halide_parallel_task_t, with what its fn does: body, and fail, the
\* indices for which fn returns -7
Task(min, extent, may_block, serial, min_threads, sems, body, fail) ==
    [min |-> min, extent |-> extent, may_block |-> may_block, serial |-> serial,
     min_threads |-> min_threads, sems |-> sems, body |-> body, fail |-> fail]

ParForCall(min, size, body, fail) ==
    [kind |-> "pf", min |-> min, size |-> size, body |-> body, fail |-> fail]
ParallelTasksCall(tasks) == [kind |-> "pt", tasks |-> tasks]

\* the other two entry points, as operations of the program
SetNumThreadsCall(n) == [kind |-> "snt", n |-> n]
ShutdownCall == [kind |-> "shutdown"]

\* the operations the calling thread performs, in order
Ops == <<scen.top>> \o scen.rest

\* what the calling thread does for one operation of the program
TopBody(o) == IF o.kind \in {"pf", "pt"} THEN CallBody(o) ELSE [op |-> o.kind]

----------------------------------------------------------------------------
(* struct work *)

Work(task, flat, valid) ==
    [task |-> task, flat |-> flat, parent |-> <<>>, active_workers |-> 0,
     exit_status |-> 0, next_semaphore |-> 0, owner_is_sleeping |-> FALSE,
     valid |-> valid]

running(j) == j.task.extent # 0 \/ j.active_workers # 0

\* a clamp without the upper limit
clamp_num_threads_NoUpper(threads) == IF threads < 1 THEN 1 ELSE threads

clamp_num_threads(threads) ==
    IF threads > MAX_THREADS THEN MAX_THREADS
    ELSE IF threads < 1 THEN 1 ELSE threads

default_desired_num_threads == scen.desired

\* What an uninitialised element of the alloca'd Job array can hold: the
\* bytes of a Job that finished earlier, or one that still shows an
\* iteration, with either exit status.
GarbageJobs ==
    { [Work(Task(0, e, FALSE, FALSE, 0, <<>>, Leaf, {}), FALSE, FALSE)
          EXCEPT !.exit_status = x] : e \in {0, 1}, x \in {0, -7} }

----------------------------------------------------------------------------
(* The state as one record, so that the steps of a handler compose.  A    *)
(* step starts with no work-queue field used outside the mutex.            *)

S == [wq |-> wq, job |-> job, sem |-> sem, mutex |-> mutex, pc |-> pc,
      fr |-> fr, ran |-> ran, released |-> released, acquired |-> acquired,
      ret |-> ret, unlocked |-> {}, ub |-> ub]

Set(s) ==
    \E v \in {s} :
        /\ wq' = v.wq /\ job' = v.job /\ sem' = v.sem /\ mutex' = v.mutex
        /\ pc' = v.pc /\ fr' = v.fr /\ ran' = v.ran /\ released' = v.released
        /\ acquired' = v.acquired
        /\ ret' = v.ret /\ unlocked' = v.unlocked /\ ub' = v.ub /\ scen' = scen

Frame(kind, call, n) ==
    [kind |-> kind, call |-> call, n |-> n, i |-> 0, exit_status |-> 0,
     cur |-> <<>>, idx |-> 0, iters |-> 0, result |-> 0, cursor |-> 1]

Top(s, t) == s.fr[t][Len(s.fr[t])]
owned_job(f) == f.call \o <<f.i>>

\* halide_cond_broadcast: every thread waiting on the condition variable
\* leaves its wait and will next take the mutex
Broadcast(s, waiting, woken) ==
    [s EXCEPT !.pc = [t \in Threads |-> IF @[t] = waiting THEN woken ELSE @[t]]]

----------------------------------------------------------------------------
(* enqueue_work_already_locked: jobs c\o<<0>> .. c\o<<num_jobs-1>> of call c *)

\* an initialisation that leaves the counters as it finds them
LazyInit_KeepCounters(w) ==
    IF w.initialized THEN w
    ELSE [w EXCEPT !.shutdown = FALSE, !.jobs = <<>>,
                   !.desired_threads_working =
                       clamp_num_threads(IF @ = 0 THEN default_desired_num_threads ELSE @),
                   !.initialized = TRUE]

LazyInit(w) ==
    IF w.initialized THEN w
    ELSE [w EXCEPT !.shutdown = FALSE, !.jobs = <<>>,
                   !.desired_threads_working =
                       clamp_num_threads(IF @ = 0 THEN default_desired_num_threads ELSE @),
                   !.a_team_size = 0, !.target_a_team_size = 0,
                   !.threads_created = 0, !.workers_sleeping = 0,
                   !.owners_sleeping = 0, !.initialized = TRUE]

\* the three sums gathered over the batch
BatchMinThreads(js) ==
    SumSeq([i \in 1..Len(js) |-> IF js[i].task.may_block THEN js[i].task.min_threads ELSE 0])
BatchWorkersToWake(js) ==
    -1 + SumSeq([i \in 1..Len(js) |-> IF js[i].task.serial THEN 1 ELSE js[i].task.extent])
BatchStealable(js) == \E i \in 1..Len(js) : ~js[i].task.may_block

\* a spawn loop that looks at desired_threads_working only
SpawnTarget_IgnoreMinThreads(w, min_threads) ==
    Max({w.threads_created, w.desired_threads_working - 1})

\* a spawn loop that looks at min_threads only
SpawnTarget_IgnoreDesired(w, min_threads) ==
    Max({w.threads_created, min_threads - 1})

\* threads_created after the spawn loop
SpawnTarget(w, min_threads) ==
    Max({w.threads_created, w.desired_threads_working - 1, min_threads - 1})

\* the wake decision
TargetATeam(w, workers_to_wake) ==
    LET nested_parallelism ==
            w.owners_sleeping > 0 \/ w.workers_sleeping < w.threads_created
    IN  IF nested_parallelism \/ workers_to_wake > w.workers_sleeping
        THEN w.threads_created ELSE workers_to_wake

\* a push loop that runs from the first Job of the batch to the last
LinkJobs_Forward(ids, i, stack) == [k \in 1..i |-> ids[i + 1 - k]] \o stack

\* "Push the jobs onto the stack": for (i = num_jobs - 1; i >= 0; i--),
\* each Job linked in front of what is there; ids[i] is jobs[i - 1]
RECURSIVE LinkJobs(_, _, _)
LinkJobs(ids, i, stack) ==
    IF i = 0 THEN stack ELSE LinkJobs(ids, i - 1, <<ids[i]>> \o stack)

\* the Jobs are linked and the threads the batch needs are created
EnqueueLink(s, c, ids, min_threads) ==
    Then(LazyInit(s.wq), LAMBDA w1 :
    Then(SpawnTarget(w1, min_threads), LAMBDA created :
        LET spawned == (w1.threads_created + 1)..created IN
        [s EXCEPT
           \* threads[] has MAX_THREADS elements: a store past its end
           !.ub = @ \/ created > MAX_THREADS,
           !.wq = [w1 EXCEPT !.a_team_size = @ + Cardinality(spawned),
                             !.threads_created = created,
                             !.jobs = LinkJobs(ids, Len(ids), @)],
           !.job = [j \in DOMAIN @ |->
                      IF j \in Range(ids) THEN [@[j] EXCEPT !.parent = c] ELSE @[j]],
           !.pc = [t \in Threads |-> IF t \in spawned THEN "start" ELSE @[t]],
           !.fr = [t \in Threads |->
                      IF t \in spawned THEN <<Frame("worker", <<>>, 0)>> ELSE @[t]]]))

\* the wake-ups at the end of enqueue
EnqueueWake(s, stealable) ==
    Then(Broadcast(s, "waitA", "wokeA"), LAMBDA s2 :
        IF s.wq.target_a_team_size > s.wq.a_team_size
        THEN Then(Broadcast(s2, "waitB", "wokeB"), LAMBDA s3 :
                 IF stealable THEN Broadcast(s3, "waitO", "wokeO") ELSE s3)
        ELSE s2)

enqueue_work_already_locked(s, c, num_jobs) ==
    LET ids == [i \in 1..num_jobs |-> c \o <<i - 1>>]
        js == [i \in 1..num_jobs |-> s.job[ids[i]]]
    IN  Then(EnqueueLink(s, c, ids, BatchMinThreads(js)), LAMBDA s1 :
        Then([s1 EXCEPT !.wq.target_a_team_size =
                           TargetATeam(s1.wq, BatchWorkersToWake(js))], LAMBDA s2 :
            EnqueueWake(s2, BatchStealable(js))))

----------------------------------------------------------------------------
(* Leaving a call: the status goes to the caller, which is the body of the *)
(* frame below, or the program itself.                                     *)

\* the number of operations of the program that have returned
OpsDone(s) == Cardinality({c \in DOMAIN s.ret : Len(c) = 1})

Deliver(s, t, c, status) ==
    LET s1 == [s EXCEPT !.ret = (c :> status) @@ @]
    IN  IF s1.fr[t] = <<>>
        THEN [s1 EXCEPT !.pc[t] = IF OpsDone(s1) < Len(Ops) THEN "body" ELSE "done"]
        ELSE [s1 EXCEPT !.pc[t] = "relock", !.fr[t][Len(s.fr[t])].result = status]

Return(s, t, status) ==
    LET c == Top(s, t).call
    IN  Deliver([s EXCEPT !.fr[t] = SubSeq(@, 1, Len(@) - 1), !.mutex = NoThread],
                t, c, status)

\* The head of the while loop of worker_thread_already_locked, and for an
\* owner whose Job is done, the rest of do_par_for / do_parallel_tasks.
RECURSIVE LoopTop(_, _)
LoopTop(s, t) ==
    LET f == Top(s, t)
        top == Len(s.fr[t])
        rescan == [s EXCEPT !.pc[t] = "scan", !.fr[t][top].cursor = 1]
    IN  IF f.kind = "worker"
        THEN IF s.wq.shutdown
             THEN [s EXCEPT !.pc[t] = "exited", !.mutex = NoThread]
             ELSE rescan
        ELSE LET own == s.job[owned_job(f)] IN
             IF running(own) THEN rescan
             ELSE IF f.kind = "pf" THEN Return(s, t, own.exit_status)
             ELSE LET st == IF own.exit_status # 0 THEN own.exit_status
                            ELSE f.exit_status
                  IN  IF f.i + 1 < f.n
                      THEN Then([s EXCEPT !.fr[t][top].i = f.i + 1,
                                          !.fr[t][top].exit_status = st],
                                LAMBDA s1 : LoopTop(s1, t))
                      ELSE Return(s, t, st)

----------------------------------------------------------------------------
(* The scan of the job stack *)

\* a try_acquire that lets the value go one below zero
AcquireFails_OffByOne(new_val) == new_val < -1

\* a try_acquire that never fails
AcquireFails_Never(new_val) == FALSE

\* halide_default_semaphore_try_acquire: the test on the value the atomic
\* decrement returned
AcquireFails(new_val) == new_val < 0

threads_that_could_assist(w, j) ==
    1 + w.workers_sleeping
      + (IF ~j.task.may_block THEN w.owners_sleeping
         ELSE IF j.owner_is_sleeping THEN 1 ELSE 0)

\* a gate that lets every Job through
enough_threads_NoGate(w, j) == TRUE

enough_threads(w, j) == j.task.min_threads <= threads_that_could_assist(w, j)

\* a test that lets an owner take any Job
may_try_AnyOwner(f, j) == ~j.task.serial \/ j.active_workers = 0

may_try(f, j) ==
    /\ f.kind = "worker" \/ j.parent = f.call \/ ~j.task.may_block
    /\ ~j.task.serial \/ j.active_workers = 0

\* a move to the B team that forgets a_team_size--
Sleep_KeepATeamSize(s, t) ==
    LET f == Top(s, t) IN
    IF f.kind # "worker"
    THEN [s EXCEPT !.wq.owners_sleeping = @ + 1,
                   !.job[owned_job(f)].owner_is_sleeping = TRUE,
                   !.pc[t] = "waitO", !.mutex = NoThread]
    ELSE IF s.wq.a_team_size > s.wq.target_a_team_size
    THEN [s EXCEPT !.wq.workers_sleeping = @ + 1,
                   !.pc[t] = "waitB", !.mutex = NoThread]
    ELSE [s EXCEPT !.wq.workers_sleeping = @ + 1,
                   !.pc[t] = "waitA", !.mutex = NoThread]

\* "There is no runnable job. Go to sleep."
Sleep(s, t) ==
    LET f == Top(s, t) IN
    IF f.kind # "worker"
    THEN [s EXCEPT !.wq.owners_sleeping = @ + 1,
                   !.job[owned_job(f)].owner_is_sleeping = TRUE,
                   !.pc[t] = "waitO", !.mutex = NoThread]
    ELSE IF s.wq.a_team_size > s.wq.target_a_team_size
    THEN [s EXCEPT !.wq.workers_sleeping = @ + 1, !.wq.a_team_size = @ - 1,
                   !.pc[t] = "waitB", !.mutex = NoThread]
    ELSE [s EXCEPT !.wq.workers_sleeping = @ + 1,
                   !.pc[t] = "waitA", !.mutex = NoThread]

\* a claim that forgets job->task.min++
ClaimParallel_SameIndex(s, t, p) ==
    LET jid == s.wq.jobs[p]
        j == s.job[jid]
        top == Len(s.fr[t])
    IN  [s EXCEPT !.job[jid].active_workers = @ + 1,
                  !.job[jid].task.extent = @ - 1,
                  !.wq.jobs = IF j.task.extent - 1 = 0 THEN RemoveAt(@, p) ELSE @,
                  !.mutex = NoThread,
                  !.pc[t] = "body",
                  !.fr[t][top].cur = jid,
                  !.fr[t][top].idx = j.task.min,
                  !.fr[t][top].result = 0,
                  !.ran[jid] = Append(@, j.task.min)]

\* a claim that leaves a Job linked when its last iteration is taken
ClaimParallel_KeepLinked(s, t, p) ==
    LET jid == s.wq.jobs[p]
        j == s.job[jid]
        top == Len(s.fr[t])
    IN  [s EXCEPT !.job[jid].active_workers = @ + 1,
                  !.job[jid].task.min = @ + 1,
                  !.job[jid].task.extent = @ - 1,
                  !.mutex = NoThread,
                  !.pc[t] = "body",
                  !.fr[t][top].cur = jid,
                  !.fr[t][top].idx = j.task.min,
                  !.fr[t][top].result = 0,
                  !.ran[jid] = Append(@, j.task.min)]

\* a claim that forgets job->active_workers++
ClaimParallel_NoCount(s, t, p) ==
    LET jid == s.wq.jobs[p]
        j == s.job[jid]
        top == Len(s.fr[t])
    IN  [s EXCEPT !.job[jid].task.min = @ + 1,
                  !.job[jid].task.extent = @ - 1,
                  !.wq.jobs = IF j.task.extent - 1 = 0 THEN RemoveAt(@, p) ELSE @,
                  !.mutex = NoThread,
                  !.pc[t] = "body",
                  !.fr[t][top].cur = jid,
                  !.fr[t][top].idx = j.task.min,
                  !.fr[t][top].result = 0,
                  !.ran[jid] = Append(@, j.task.min)]

\* "Claim a task from it": one iteration of a non-serial Job
ClaimParallel(s, t, p) ==
    LET jid == s.wq.jobs[p]
        j == s.job[jid]
        top == Len(s.fr[t])
    IN  [s EXCEPT !.job[jid].active_workers = @ + 1,
                  !.job[jid].task.min = @ + 1,
                  !.job[jid].task.extent = @ - 1,
                  !.wq.jobs = IF j.task.extent - 1 = 0 THEN RemoveAt(@, p) ELSE @,
                  !.mutex = NoThread,
                  !.pc[t] = "body",
                  !.fr[t][top].cur = jid,
                  !.fr[t][top].idx = j.task.min,
                  !.fr[t][top].result = 0,
                  !.ran[jid] = Append(@, j.task.min)]

\* a claim of a serial Job that leaves it on the stack
ClaimSerial_KeepLinked(s, t, p) ==
    LET jid == s.wq.jobs[p]
        top == Len(s.fr[t])
    IN  [s EXCEPT !.job[jid].active_workers = @ + 1,
                  !.mutex = NoThread,
                  !.pc[t] = "serial",
                  !.fr[t][top].cur = jid,
                  !.fr[t][top].iters = 1,
                  !.fr[t][top].result = 0]

\* "Remove it from the stack while we work on it": a serial Job
ClaimSerial(s, t, p) ==
    LET jid == s.wq.jobs[p]
        top == Len(s.fr[t])
    IN  [s EXCEPT !.job[jid].active_workers = @ + 1,
                  !.wq.jobs = RemoveAt(@, p),
                  !.mutex = NoThread,
                  !.pc[t] = "serial",
                  !.fr[t][top].cur = jid,
                  !.fr[t][top].iters = 1,
                  !.fr[t][top].result = 0]

Claim(s, t, p) ==
    IF s.job[s.wq.jobs[p]].task.serial THEN ClaimSerial(s, t, p)
    ELSE ClaimParallel(s, t, p)

\* the first Job at or below the cursor that passes may_try and
\* enough_threads, 0 if there is none
Candidate(s, t) ==
    LET f == Top(s, t)
        C == {p \in f.cursor..Len(s.wq.jobs) :
                 /\ may_try(f, s.job[s.wq.jobs[p]])
                 /\ enough_threads(s.wq, s.job[s.wq.jobs[p]])}
    IN  IF C = {} THEN 0 ELSE Min(C)

\* the scan reads a Job whose submitting call has returned
TouchesDead(s, t) ==
    LET p == Candidate(s, t)
        last == IF p = 0 THEN Len(s.wq.jobs) ELSE p
    IN  \E k \in Top(s, t).cursor..last : CallOf(s.wq.jobs[k]) \in DOMAIN s.ret

\* One step of the scan: pass over the Jobs that may not be tried, then
\* one semaphore operation of make_runnable on the first that may, or the
\* claim, or the wait.
ScanStep(s, t) ==
    LET p == Candidate(s, t)
        top == Len(s.fr[t])
    IN  IF TouchesDead(s, t) THEN [s EXCEPT !.ub = TRUE]
        ELSE IF p = 0 THEN Sleep(s, t)
        ELSE LET jid == s.wq.jobs[p]
                 j == s.job[jid]
             IN  IF j.next_semaphore < Len(j.task.sems)
                 THEN LET sc == j.task.sems[j.next_semaphore + 1]
                          new_val == s.sem[sc[1]] - sc[2]
                      IN  IF AcquireFails(new_val)
                          THEN [s EXCEPT !.sem[sc[1]] = new_val,
                                         !.pc[t] = "restore",
                                         !.fr[t][top].cursor = p]
                          ELSE IF j.next_semaphore + 1 < Len(j.task.sems)
                          THEN [s EXCEPT !.sem[sc[1]] = new_val,
                                         !.acquired[sc[1]] = @ + sc[2],
                                         !.job[jid].next_semaphore = @ + 1,
                                         !.fr[t][top].cursor = p]
                          ELSE Claim([s EXCEPT !.sem[sc[1]] = new_val,
                                               !.acquired[sc[1]] = @ + sc[2],
                                               !.job[jid].next_semaphore = 0], t, p)
                 ELSE Claim([s EXCEPT !.job[jid].next_semaphore = 0], t, p)

\* a failed try_acquire that does not give back what it took
RestoreStep_NoReincrement(s, t) ==
    [s EXCEPT !.pc[t] = "scan",
              !.fr[t][Len(s.fr[t])].cursor = Top(s, t).cursor + 1]

\* a make_runnable that starts over at the first semaphore after a failure
RestoreStep_Restart(s, t) ==
    LET f == Top(s, t)
        jid == s.wq.jobs[f.cursor]
        sc == s.job[jid].task.sems[s.job[jid].next_semaphore + 1]
    IN  [s EXCEPT !.sem[sc[1]] = @ + sc[2],
                  !.job[jid].next_semaphore = 0,
                  !.pc[t] = "scan",
                  !.fr[t][Len(s.fr[t])].cursor = f.cursor + 1]

\* the second half of a failed try_acquire: "Oops, increment and return
\* failure"; the scan goes on with the next Job
RestoreStep(s, t) ==
    LET f == Top(s, t)
        j == s.job[s.wq.jobs[f.cursor]]
        sc == j.task.sems[j.next_semaphore + 1]
    IN  [s EXCEPT !.sem[sc[1]] = @ + sc[2],
                  !.pc[t] = "scan",
                  !.fr[t][Len(s.fr[t])].cursor = f.cursor + 1]

\* a wake-up that leaves owner_is_sleeping set
AfterWait_KeepOwnerFlag(s, t) ==
    IF s.pc[t] = "wokeO"
    THEN [s EXCEPT !.wq.owners_sleeping = @ - 1, !.mutex = t]
    ELSE IF s.pc[t] = "wokeB"
    THEN [s EXCEPT !.wq.a_team_size = @ + 1, !.wq.workers_sleeping = @ - 1,
                   !.mutex = t]
    ELSE [s EXCEPT !.wq.workers_sleeping = @ - 1, !.mutex = t]

\* after halide_cond_wait returns with the mutex held
AfterWait(s, t) ==
    LET f == Top(s, t) IN
    IF s.pc[t] = "wokeO"
    THEN [s EXCEPT !.job[owned_job(f)].owner_is_sleeping = FALSE,
                   !.wq.owners_sleeping = @ - 1, !.mutex = t]
    ELSE IF s.pc[t] = "wokeB"
    THEN [s EXCEPT !.wq.a_team_size = @ + 1, !.wq.workers_sleeping = @ - 1,
                   !.mutex = t]
    ELSE [s EXCEPT !.wq.workers_sleeping = @ - 1, !.mutex = t]

\* a tail that never wakes the owner
ReportResult_NoOwnerWake(s, t) ==
    LET f == Top(s, t) IN
    [s EXCEPT !.job[f.cur].exit_status = IF f.result # 0 THEN f.result ELSE @,
              !.job[f.cur].active_workers = @ - 1,
              !.fr[t][Len(s.fr[t])] =
                  [@ EXCEPT !.cur = <<>>, !.idx = 0, !.iters = 0, !.result = 0]]

\* a tail that drops what is left of a Job whose iteration failed
ReportResult_CancelOnFailure(s, t) ==
    LET f == Top(s, t)
        s1 == [s EXCEPT !.job[f.cur].exit_status = IF f.result # 0 THEN f.result ELSE @,
                        !.job[f.cur].active_workers = @ - 1,
                        !.job[f.cur].task.extent = IF f.result # 0 THEN 0 ELSE @,
                        !.wq.jobs = IF f.result # 0
                                    THEN SelectSeq(@, LAMBDA x : x # f.cur) ELSE @]
        s2 == [s1 EXCEPT !.fr[t][Len(s.fr[t])] =
                             [@ EXCEPT !.cur = <<>>, !.idx = 0, !.iters = 0, !.result = 0]]
    IN  IF ~running(s1.job[f.cur]) /\ s1.job[f.cur].owner_is_sleeping
        THEN Broadcast(s2, "waitO", "wokeO") ELSE s2

\* a tail that tests running() before it gives up its own count
ReportResult_TestBeforeDecrement(s, t) ==
    LET f == Top(s, t)
        s1 == [s EXCEPT !.job[f.cur].exit_status = IF f.result # 0 THEN f.result ELSE @,
                        !.job[f.cur].active_workers = @ - 1]
        s2 == [s1 EXCEPT !.fr[t][Len(s.fr[t])] =
                             [@ EXCEPT !.cur = <<>>, !.idx = 0, !.iters = 0, !.result = 0]]
    IN  IF ~running(s.job[f.cur]) /\ s.job[f.cur].owner_is_sleeping
        THEN Broadcast(s2, "waitO", "wokeO") ELSE s2

\* the tail of the loop body, with the mutex held again
ReportResult(s, t) ==
    LET f == Top(s, t)
        s1 == [s EXCEPT !.job[f.cur].exit_status = IF f.result # 0 THEN f.result ELSE @,
                        !.job[f.cur].active_workers = @ - 1]
        s2 == [s1 EXCEPT !.fr[t][Len(s.fr[t])] =
                             [@ EXCEPT !.cur = <<>>, !.idx = 0, !.iters = 0, !.result = 0]]
    IN  IF ~running(s1.job[f.cur]) /\ s1.job[f.cur].owner_is_sleeping
        THEN Broadcast(s2, "waitO", "wokeO") ELSE s2

----------------------------------------------------------------------------
(* The serial branch, run without the mutex *)

\* halide_do_loop_task(min, iters) is entered: the batch is handed to fn
StartBatch(s, t) ==
    LET f == Top(s, t)
        j == s.job[f.cur]
        top == Len(s.fr[t])
    IN  [s EXCEPT !.pc[t] = "serial_run",
                  !.fr[t][top].idx = j.task.min,
                  !.ran[f.cur] = @ \o [k \in 1..f.iters |-> j.task.min + k - 1]]

\* the inner while loop has ended
InnerDone(s, t) ==
    IF Top(s, t).iters = 0 THEN [s EXCEPT !.pc[t] = "serial_lock"]
    ELSE StartBatch(s, t)

\* "Claim as many iterations as possible": one semaphore operation of the
\* inner while loop, or all of it when the Job has no semaphores
SerialClaimStep(s, t) ==
    LET f == Top(s, t)
        j == s.job[f.cur]
        top == Len(s.fr[t])
    IN  IF j.task.extent <= f.iters THEN InnerDone(s, t)
        ELSE IF Len(j.task.sems) = 0
        THEN InnerDone([s EXCEPT !.fr[t][top].iters = j.task.extent,
                                 !.job[f.cur].next_semaphore = 0], t)
        ELSE LET sc == j.task.sems[j.next_semaphore + 1]
                 new_val == s.sem[sc[1]] - sc[2]
             IN  IF AcquireFails(new_val)
                 THEN [s EXCEPT !.sem[sc[1]] = new_val, !.pc[t] = "serial_restore"]
                 ELSE IF j.next_semaphore + 1 < Len(j.task.sems)
                 THEN [s EXCEPT !.sem[sc[1]] = new_val,
                                !.acquired[sc[1]] = @ + sc[2],
                                !.job[f.cur].next_semaphore = @ + 1]
                 ELSE [s EXCEPT !.sem[sc[1]] = new_val,
                                !.acquired[sc[1]] = @ + sc[2],
                                !.job[f.cur].next_semaphore = 0,
                                !.fr[t][top].iters = @ + 1]

\* a failed try_acquire of the inner loop that keeps what it took
SerialRestoreStep_NoReincrement(s, t) == InnerDone(s, t)

SerialRestoreStep(s, t) ==
    LET f == Top(s, t)
        j == s.job[f.cur]
        sc == j.task.sems[j.next_semaphore + 1]
    IN  InnerDone([s EXCEPT !.sem[sc[1]] = @ + sc[2]], t)

\* a batch end that forgets job->task.min += iters
EndBatch_NoAdvance(s, t, result) ==
    LET f == Top(s, t)
        top == Len(s.fr[t])
    IN  [s EXCEPT !.job[f.cur].task.extent = @ - f.iters,
                  !.fr[t][top].iters = 0,
                  !.fr[t][top].result = result,
                  !.pc[t] = IF result = 0 THEN "serial" ELSE "serial_lock"]

\* the batch has returned: "job->task.min += iters; job->task.extent -= iters"
EndBatch(s, t, result) ==
    LET f == Top(s, t)
        top == Len(s.fr[t])
    IN  [s EXCEPT !.job[f.cur].task.min = @ + f.iters,
                  !.job[f.cur].task.extent = @ - f.iters,
                  !.fr[t][top].iters = 0,
                  !.fr[t][top].result = result,
                  !.pc[t] = IF result = 0 THEN "serial" ELSE "serial_lock"]

\* the status fn returns for the indices lo .. hi-1
Status(task, lo, hi) == IF \E k \in lo..(hi - 1) : k \in task.fail THEN -7 ELSE 0

\* "Put it back on the job stack"
PushBack(s, t) ==
    LET f == Top(s, t) IN
    IF s.job[f.cur].task.extent > 0
    THEN [s EXCEPT !.wq.jobs = <<f.cur>> \o @] ELSE s

----------------------------------------------------------------------------
(* Task bodies *)

BodyOf(s, t) ==
    IF s.fr[t] = <<>> THEN TopBody(Ops[OpsDone(s) + 1])
    ELSE s.job[Top(s, t).cur].task.body

CallId(s, t) ==
    IF s.fr[t] = <<>> THEN <<OpsDone(s)>>
    ELSE Top(s, t).cur \o <<Top(s, t).idx>>

\* an iteration's body has done its operation
AfterOp(s, t) ==
    LET f == Top(s, t)
        j == s.job[f.cur]
        top == Len(s.fr[t])
    IN  IF j.task.serial
        THEN IF f.idx + 1 < j.task.min + f.iters
             THEN [s EXCEPT !.pc[t] = "serial_run", !.fr[t][top].idx = @ + 1]
             ELSE EndBatch(s, t, Status(j.task, j.task.min, j.task.min + f.iters))
        ELSE [s EXCEPT !.pc[t] = "relock",
                       !.fr[t][top].result = Status(j.task, f.idx, f.idx + 1)]

\* halide_default_semaphore_release: the atomic add
ReleaseAdd(s, t) ==
    LET b == BodyOf(s, t)
        new_val == s.sem[b.sem] + b.n
        s1 == [s EXCEPT !.sem[b.sem] = new_val, !.released[b.sem] = @ + b.n]
    IN  IF new_val = b.n THEN [s1 EXCEPT !.pc[t] = "release_wake"]
        ELSE AfterOp(s1, t)

\* halide_default_semaphore_release: "We may have just made a job runnable"
ReleaseWake(s, t) ==
    Then(Broadcast(Broadcast(s, "waitA", "wokeA"), "waitO", "wokeO"),
         LAMBDA s1 : AfterOp([s1 EXCEPT !.unlocked = {"wake_a_team", "wake_owners"}], t))

\* the jobs array of do_parallel_tasks after its copy loop: the final
\* num_tasks and, by index, the descriptors that were copied
RECURSIVE CopyTasks(_, _, _, _, _)
CopyTasks(tasks, i, num_tasks, tp, jobs) ==
    IF i >= num_tasks THEN [num_tasks |-> num_tasks, jobs |-> jobs]
    ELSE IF tasks[tp].extent <= 0
    THEN CopyTasks(tasks, i + 1, num_tasks - 1, tp, jobs)
    ELSE CopyTasks(tasks, i + 1, num_tasks, tp + 1, (i :> tasks[tp]) @@ jobs)

----------------------------------------------------------------------------
(* The programs the model runs *)

Program(desired, seminit, top) ==
    [desired |-> desired, sem |-> seminit, top |-> top, rest |-> <<>>]

\* a program of several operations, one after the other
ProgramSeq(desired, ops) ==
    [desired |-> desired, sem |-> <<0>>, top |-> Head(ops), rest |-> Tail(ops)]

\* a flat loop, some of whose iterations may fail
ScenFlat ==
    { Program(d, <<0>>, ParForCall(m, n, Leaf, F)) :
        d \in 1..MaxDesired, m \in {0, 3}, n \in 0..MaxExtent,
        F \in {{}, {3}, {0, 1}} }

\* an outer loop whose every iteration runs an inner loop
ScenNested ==
    { Program(d, <<0>>, ParForCall(0, n, CallBody(ParForCall(0, k, Leaf, F)), {})) :
        d \in 1..MaxDesired, n \in 1..MaxExtent, k \in 1..MaxExtent, F \in {{}, {0}} }

\* a producer that releases semaphore 1 once per iteration and a consumer
\* that needs it once per iteration, and whose iteration 0 may fail
ScenProdCons ==
    { Program(d, <<0>>, ParallelTasksCall(
          <<Task(0, n, FALSE, sp, 1, <<>>, Rel(1, 1), {}),
            Task(0, n, FALSE, sc, 1, <<<<1, 1>>>>, Leaf, F)>>)) :
        d \in 1..MaxDesired, n \in 1..MaxExtent, sp \in BOOLEAN, sc \in BOOLEAN,
        F \in {{}, {0}} }

\* a consumer that needs 2 of semaphore 1 for its one iteration, and a
\* producer that releases them one at a time or both at once
ScenCounted ==
    { Program(d, <<0>>, ParallelTasksCall(
          <<Task(0, 2 \div r, FALSE, FALSE, 1, <<>>, Rel(1, r), {}),
            Task(0, 1, FALSE, FALSE, 1, <<<<1, 2>>>>, Leaf, {})>>)) :
        d \in 1..MaxDesired, r \in 1..2 }

\* a consumer whose every iteration needs semaphore 1, which holds enough,
\* and then semaphore 2, which the producer releases once per iteration
ScenTwoSems ==
    { Program(d, <<n, 0>>, ParallelTasksCall(
          <<Task(0, n, FALSE, FALSE, 1, <<>>, Rel(2, 1), {}),
            Task(0, n, FALSE, sc, 1, <<<<1, 1>>, <<2, 1>>>>, Leaf, {})>>)) :
        d \in 1..2, n \in 1..MaxExtent, sc \in BOOLEAN }

\* one serial task, gated or not by a semaphore that holds enough for
\* all its iterations
ScenSerial ==
    { Program(d, <<n>>, ParallelTasksCall(
          <<Task(0, n, FALSE, TRUE, 1, g, Leaf, F)>>)) :
        d \in 1..MaxDesired, n \in 1..(MaxExtent + 1),
        g \in {<<>>, <<<<1, 1>>>>}, F \in {{}, {1}} }

\* one blocking task that needs k threads, on a smaller pool
ScenBlocking ==
    { Program(d, <<0>>, ParallelTasksCall(
          <<Task(0, 1, TRUE, FALSE, k, <<>>, Leaf, {})>>)) :
        d \in 1..MaxDesired, k \in 2..(MaxWorkers + 1) }

\* a flat loop whose every iteration submits a blocking task that needs 2
ScenNestedBlocking ==
    { Program(d, <<0>>, ParForCall(0, 2, CallBody(ParallelTasksCall(
          <<Task(0, 1, TRUE, FALSE, 2, <<>>, Leaf, {})>>)), {})) :
        d \in 2..MaxDesired }

\* a flat loop whose every iteration submits two tasks
ScenNestedTasks ==
    { Program(d, <<0>>, ParForCall(0, 2, CallBody(ParallelTasksCall(
          <<Task(0, 1, FALSE, FALSE, 1, <<>>, Leaf, {}),
            Task(0, 1, FALSE, s, 1, <<>>, Leaf, {})>>)), {})) :
        d \in 1..2, s \in BOOLEAN }

\* task arrays some of whose extents are 0
ScenSkipped ==
    { Program(d, <<0>>, ParallelTasksCall(
          [i \in 1..Len(e) |-> Task(0, e[i], FALSE, FALSE, 1, <<>>, Leaf, F)])) :
        d \in 1..MaxDesired, e \in [1..2 -> {0, 1}] \cup [1..3 -> {0, 1}],
        F \in {{}, {0}} }

\* two loops one after the other; the second may be empty
ScenSequence ==
    { ProgramSeq(d, <<ParForCall(0, MaxExtent, Leaf, {}), ParForCall(0, n, Leaf, {})>>) :
        d \in 2..MaxDesired, n \in (-1)..MaxExtent }

\* the pool is shut down: before any use, after one loop, after a loop and
\* a smaller one
ScenShutdown ==
    { ProgramSeq(d, o \o e) :
        d \in 1..MaxDesired, e \in {<<ShutdownCall>>, <<ShutdownCall, ShutdownCall>>},
        o \in { <<>>, <<ParForCall(0, MaxExtent, Leaf, {})>>,
                <<ParForCall(0, MaxExtent, Leaf, {}), ParForCall(0, 1, Leaf, {})>> } }

\* the pool is used again after a shutdown
ScenReuse ==
    { ProgramSeq(d, <<ParForCall(0, MaxExtent, Leaf, {}), ShutdownCall,
                      ParForCall(0, MaxExtent, Leaf, {})>>) : d \in 2..MaxDesired }

\* the pool is shut down from inside a task while its sibling task may be
\* running on a worker
ScenShutdownInFlight ==
    { Program(d, <<0>>, ParallelTasksCall(
          <<Task(0, 1, FALSE, FALSE, 1, <<>>, [op |-> "shutdown"], {}),
            Task(0, MaxExtent, FALSE, FALSE, 1, <<>>, Leaf, {})>>)) :
        d \in 2..MaxDesired }

\* halide_set_num_threads twice, with HL_NUM_THREADS e (atoi may give 0 or
\* more than MAX_THREADS), and once before a loop
ScenSetThreads ==
    { ProgramSeq(e, <<SetNumThreadsCall(a), SetNumThreadsCall(b)>>) :
        e \in {0, 2, MAX_THREADS + 44}, a \in {0, 1, 3, MAX_THREADS + 44},
        b \in {0, 3} }
    \cup
    { ProgramSeq(MaxDesired, <<SetNumThreadsCall(a), ParForCall(0, MaxExtent, Leaf, {}),
                               SetNumThreadsCall(0)>>) : a \in 1..2 }

\* halide_set_num_threads lowers the desired count of a pool that has its
\* workers, and the pool is used again
ScenLowerThreads ==
    { ProgramSeq(MaxDesired, <<ParForCall(0, MaxExtent, Leaf, {}), SetNumThreadsCall(n),
                               ParForCall(0, 1, Leaf, {})>>) : n \in 1..(MaxDesired - 1) }

\* the first enqueue with HL_NUM_THREADS read as 0, and the first enqueue
\* of a pool that was shut down and then told to use one thread
ScenLazyInit ==
    { Program(0, <<0>>, ParForCall(0, MaxExtent, Leaf, {})),
      ProgramSeq(MaxDesired, <<ParForCall(0, MaxExtent, Leaf, {}), ShutdownCall,
                               SetNumThreadsCall(1), ParForCall(0, 1, Leaf, {})>>) }

\* blocking tasks that together need more than MAX_THREADS threads
ScenManyThreads ==
    { Program(d, <<0>>, ParallelTasksCall(
          [i \in 1..n |-> Task(0, 1, TRUE, FALSE, (MAX_THREADS + 2) \div n, <<>>, Leaf, {})])) :
        d \in 1..2, n \in 1..2 }

Scenarios ==
    ScenFlat \cup ScenNested \cup ScenProdCons \cup ScenCounted \cup ScenTwoSems \cup ScenSerial \cup ScenBlocking
        \cup ScenNestedBlocking \cup ScenNestedTasks \cup ScenSkipped \cup ScenSequence
        \cup ScenShutdown \cup ScenReuse \cup ScenShutdownInFlight \cup ScenSetThreads
        \cup ScenLowerThreads \cup ScenLazyInit \cup ScenManyThreads

----------------------------------------------------------------------------
(* Initial state: the zero-initialised work queue, no pool thread yet *)

Init ==
    /\ scen \in Scenarios
    /\ wq = [jobs |-> <<>>, threads_created |-> 0, desired_threads_working |-> 0,
             a_team_size |-> 0, target_a_team_size |-> 0, workers_sleeping |-> 0,
             owners_sleeping |-> 0, shutdown |-> FALSE, initialized |-> FALSE]
    /\ job = <<>>
    /\ sem = scen.sem
    /\ mutex = NoThread
    /\ pc = [t \in Threads |-> IF t = 0 THEN "body" ELSE "unspawned"]
    /\ fr = [t \in Threads |-> <<>>]
    /\ ran = <<>>
    /\ released = [i \in DOMAIN scen.sem |-> 0]
    /\ acquired = [i \in DOMAIN scen.sem |-> 0]
    /\ ret = <<>>
    /\ unlocked = {}
    /\ ub = FALSE

----------------------------------------------------------------------------
(* Actions *)

AtCall(t, kind) ==
    /\ ~ub
    /\ pc[t] = "body"
    /\ BodyOf(S, t).op = "call"
    /\ BodyOf(S, t).call.kind = kind

\* the early return of par_for: nothing to run
EmptyLoop_OnlyNegative(size) == size < 0

EmptyLoop(size) == size <= 0

halide_default_do_par_for(t) ==
    /\ AtCall(t, "pf")
    /\ LET cd == BodyOf(S, t).call
           c == CallId(S, t)
           jid == c \o <<0>>
           w == Work(Task(cd.min, cd.size, FALSE, FALSE, 1, <<>>, cd.body, cd.fail),
                     TRUE, TRUE)
       IN  IF EmptyLoop(cd.size) THEN Set(Deliver(S, t, c, 0))
           ELSE /\ mutex = NoThread
                /\ \E s0 \in {[S EXCEPT !.job = (jid :> w) @@ @,
                                         !.ran = (jid :> <<>>) @@ @,
                                         !.mutex = t,
                                         !.fr[t] = Append(@, Frame("pf", c, 1))]} :
                   \E s1 \in {enqueue_work_already_locked(s0, c, 1)} :
                       Set(LoopTop(s1, t))

halide_default_do_parallel_tasks(t) ==
    /\ AtCall(t, "pt")
    /\ LET cd == BodyOf(S, t).call
           c == CallId(S, t)
           cp == CopyTasks(cd.tasks, 0, Len(cd.tasks), 1, <<>>)
           n == cp.num_tasks
           ids == {c \o <<i>> : i \in 0..(n - 1)}
       IN  IF n = 0 THEN Set(Deliver(S, t, c, 0))
           ELSE /\ mutex = NoThread
                /\ \E g \in [(0..(n - 1)) \ DOMAIN cp.jobs -> GarbageJobs] :
                     LET new == [jid \in ids |->
                                   LET i == jid[Len(jid)] IN
                                   IF i \in DOMAIN cp.jobs
                                   THEN Work(cp.jobs[i], FALSE, TRUE) ELSE g[i]]
                     IN  \E s0 \in {[S EXCEPT !.job = new @@ @,
                                               !.ran = [jid \in ids |-> <<>>] @@ @,
                                               !.mutex = t,
                                               !.fr[t] = Append(@, Frame("pt", c, n))]} :
                         \E s1 \in {enqueue_work_already_locked(s0, c, n)} :
                             Set(LoopTop(s1, t))

\* a spawned thread enters worker_thread(NULL)
worker_thread(t) ==
    /\ ~ub /\ pc[t] = "start" /\ mutex = NoThread
    /\ \E s0 \in {[S EXCEPT !.mutex = t]} : Set(LoopTop(s0, t))

\* a thread holding the mutex looks for a Job to run
FindJob(t) ==
    /\ ~ub /\ pc[t] = "scan"
    /\ Set(ScanStep(S, t))

TryAcquireUndo(t) ==
    /\ ~ub /\ pc[t] = "restore"
    /\ Set(RestoreStep(S, t))

\* halide_cond_wait returns: the woken thread has the mutex again
WakeUp(t) ==
    /\ ~ub /\ pc[t] \in {"wokeA", "wokeB", "wokeO"} /\ mutex = NoThread
    /\ \E s1 \in {AfterWait(S, t)} : Set(LoopTop(s1, t))

\* a claimed iteration of a non-serial Job returns and is reported
FinishTask(t) ==
    /\ ~ub /\ mutex = NoThread /\ fr[t] # <<>>
    /\ \/ pc[t] = "relock"
       \/ pc[t] = "body" /\ job[Top(S, t).cur].valid /\ BodyOf(S, t).op = "ret"
    /\ \E s1 \in {IF pc[t] = "body" THEN AfterOp(S, t) ELSE S} :
       \E s2 \in {ReportResult([s1 EXCEPT !.mutex = t], t)} :
           Set(LoopTop(s2, t))

\* the function pointers of an uninitialised Job are called
GarbageCall(t) ==
    /\ ~ub /\ pc[t] = "body" /\ fr[t] # <<>> /\ ~job[Top(S, t).cur].valid
    /\ Set([S EXCEPT !.ub = TRUE])

SerialClaim(t) ==
    /\ ~ub /\ pc[t] = "serial"
    /\ Set(SerialClaimStep(S, t))

SerialTryAcquireUndo(t) ==
    /\ ~ub /\ pc[t] = "serial_restore"
    /\ Set(SerialRestoreStep(S, t))

\* a batch of a serial Job whose fn only computes returns
SerialRun(t) ==
    /\ ~ub /\ pc[t] = "serial_run" /\ BodyOf(S, t).op = "ret"
    /\ LET f == Top(S, t)
           j == job[f.cur]
       IN  Set(EndBatch(S, t, Status(j.task, j.task.min, j.task.min + f.iters)))

SerialFinish(t) ==
    /\ ~ub /\ pc[t] = "serial_lock" /\ mutex = NoThread
    /\ \E s1 \in {PushBack([S EXCEPT !.mutex = t], t)} :
       \E s2 \in {ReportResult(s1, t)} :
           Set(LoopTop(s2, t))

halide_default_semaphore_release(t) ==
    /\ ~ub /\ pc[t] \in {"body", "serial_run"} /\ fr[t] # <<>>
    /\ BodyOf(S, t).op = "rel"
    /\ Set(ReleaseAdd(S, t))

SemaphoreReleaseWake(t) ==
    /\ ~ub /\ pc[t] = "release_wake"
    /\ Set(ReleaseWake(S, t))

\* halide_set_num_threads(n), n >= 0
halide_set_num_threads(t) ==
    /\ ~ub /\ pc[t] = "body" /\ BodyOf(S, t).op = "snt" /\ mutex = NoThread
    /\ LET n == Ops[OpsDone(S) + 1].n
           old == wq.desired_threads_working
       IN  Set(Deliver([S EXCEPT !.wq.desired_threads_working =
                                    clamp_num_threads(IF n = 0
                                                      THEN default_desired_num_threads
                                                      ELSE n)],
                       t, CallId(S, t), old))

\* a shutdown that leaves the B team asleep
ShutdownBroadcast_NoBTeam(s) ==
    Then(Broadcast([s EXCEPT !.wq.shutdown = TRUE], "waitA", "wokeA"), LAMBDA s1 :
        Broadcast(s1, "waitO", "wokeO"))

\* "Wake everyone up and tell them the party's over"
ShutdownBroadcast(s) ==
    Then(Broadcast([s EXCEPT !.wq.shutdown = TRUE], "waitA", "wokeA"), LAMBDA s1 :
    Then(Broadcast(s1, "waitB", "wokeB"), LAMBDA s2 :
        Broadcast(s2, "waitO", "wokeO")))

\* halide_shutdown_thread_pool returns, to the program or to the task body
\* that called it, which then ends with status 0
ShutdownReturn(s, t) ==
    IF s.fr[t] = <<>> THEN Deliver(s, t, CallId(s, t), 0)
    ELSE [s EXCEPT !.pc[t] = "relock", !.fr[t][Len(s.fr[t])].result = 0]

\* a shutdown that does not look at initialized
PoolInitialized_Always(w) == TRUE

\* "if (work_queue.initialized)"
PoolInitialized(w) == w.initialized

\* halide_shutdown_thread_pool up to its first join
halide_shutdown_thread_pool(t) ==
    /\ ~ub /\ pc[t] = "body" /\ BodyOf(S, t).op = "shutdown"
    /\ \E s0 \in {[S EXCEPT !.unlocked = {"initialized"}]} :
         IF ~PoolInitialized(wq) THEN Set(ShutdownReturn(s0, t))
         ELSE /\ mutex = NoThread
              /\ \E s1 \in {ShutdownBroadcast(s0)} : Set([s1 EXCEPT !.pc[t] = "join"])

\* "Wait until they leave", then "Tidy up". A worker that shuts the pool
\* down joins itself, and a caller inside a task goes on to lock the mutex
\* that was destroyed here: both are undefined.
ShutdownJoin(t) ==
    /\ ~ub /\ pc[t] = "join"
    /\ \A u \in (1..wq.threads_created) \ {t} : pc[u] = "exited"
    /\ \E s1 \in {ShutdownReturn([S EXCEPT !.wq.initialized = FALSE,
                                              !.unlocked = {"threads_created", "threads",
                                                            "initialized"}], t)} :
           Set([s1 EXCEPT !.ub = (t # 0 \/ fr[t] # <<>>)])

Next ==
    \E t \in Threads :
        \/ halide_default_do_par_for(t)
        \/ halide_default_do_parallel_tasks(t)
        \/ worker_thread(t)
        \/ FindJob(t)
        \/ TryAcquireUndo(t)
        \/ WakeUp(t)
        \/ FinishTask(t)
        \/ GarbageCall(t)
        \/ SerialClaim(t)
        \/ SerialTryAcquireUndo(t)
        \/ SerialRun(t)
        \/ SerialFinish(t)
        \/ halide_default_semaphore_release(t)
        \/ SemaphoreReleaseWake(t)
        \/ halide_set_num_threads(t)
        \/ halide_shutdown_thread_pool(t)
        \/ ShutdownJoin(t)

Spec == Init /\ [][Next]_vars

\* threads are scheduled: the pool does not stop while some thread can step
FairSpec == Spec /\ WF_vars(Next)

----------------------------------------------------------------------------
(* Vocabulary of the properties *)

JobsOfCall(c) == {j \in DOMAIN job : CallOf(j) = c}

\* the call descriptor call c was made with
CallDescOf(c) == IF Len(c) = 1 THEN Ops[c[1] + 1] ELSE job[CallOf(c)].task.body.call

\* the range a Job was submitted with
RangeOf(j) ==
    LET cd == CallDescOf(CallOf(j)) IN
    IF cd.kind = "pf" THEN cd.min..(cd.min + cd.size - 1)
    ELSE LET tk == cd.tasks[j[Len(j)] + 1] IN tk.min..(tk.min + tk.extent - 1)

NoDup(q) == \A a, b \in 1..Len(q) : a # b => q[a] # q[b]
Increasing(q) == \A a, b \in 1..Len(q) : a < b => q[a] < q[b]

\* thread t is inside an iteration (or a serial batch) of Job j
Executing(t, j) ==
    \E d \in 1..Len(fr[t]) :
        /\ fr[t][d].cur = j
        /\ d < Len(fr[t]) \/ pc[t] \in {"body", "relock", "release_wake", "serial",
                                        "serial_restore", "serial_run", "serial_lock"}

Asleep(t) == pc[t] \in {"waitA", "waitB", "waitO"}
Done == pc[0] = "done"

\* every thread that exists is asleep on a condition variable while a Job
\* of a call that has not returned is unfinished
AllAsleep ==
    /\ \A t \in Threads : pc[t] = "unspawned" \/ Asleep(t)
    /\ \E j \in DOMAIN job : running(job[j]) /\ CallOf(j) \notin DOMAIN ret

\* the status the iteration idx of Job j returned to the scheduler
IterStatus(j, idx) ==
    IF job[j].task.body.op = "call"
    THEN (IF (j \o <<idx>>) \in DOMAIN ret THEN ret[j \o <<idx>>] ELSE 0)
    ELSE Status(job[j].task, idx, idx + 1)

\* the statuses the iterations of the initialised Jobs of call c returned
StatusesOf(c) ==
    UNION {{IterStatus(j, k) : k \in Range(ran[j])} :
              j \in {x \in JobsOfCall(c) : job[x].valid}}

\* the number of iterations handed to task functions over the Jobs in J
TotalRan(J) == Cardinality(UNION {{<<j, i>> : i \in 1..Len(ran[j])} : j \in J})

----------------------------------------------------------------------------
(* C1 .. C10 *)

\* C1: for every par_for(min, size) with size > 0, no index is handed to
\* the task function twice, none outside min .. min+size-1 is, and when
\* the call has returned every index of the range has been.
C1_ParForExactlyOnce ==
    \A j \in DOMAIN job : job[j].flat =>
        /\ NoDup(ran[j])
        /\ Range(ran[j]) \subseteq RangeOf(j)
        /\ CallOf(j) \in DOMAIN ret => Range(ran[j]) = RangeOf(j)

C1_Witness ==
    /\ Done /\ scen \in ScenFlat /\ scen.top.min = 3 /\ scen.top.size = MaxExtent
    /\ wq.threads_created >= 1
    /\ Range(ran[<<0, 0>>]) = 3..(3 + MaxExtent - 1)

\* C2: when par_for or parallel_tasks has returned, each Job it submitted
\* has extent 0 and no active worker, is not linked in the job stack, and
\* no thread is inside one of its iterations.
C2_ReturnOnlyWhenFinished ==
    \A c \in DOMAIN ret : \A j \in JobsOfCall(c) :
        /\ job[j].task.extent = 0
        /\ job[j].active_workers = 0
        /\ j \notin Range(wq.jobs)
        /\ \A t \in Threads : ~Executing(t, j)

\* C3: the pool never reaches a state in which every thread is asleep on a
\* condition variable while some Job is unfinished.
C3_NeverAllAsleep == ~ub => ~AllAsleep

\* C4: an outer par_for whose every iteration calls an inner par_for
\* terminates, having run (outer size) x (inner size) inner iterations.
C4_NestedFlatLoopsTerminate ==
    (scen \in ScenNested) ~>
        (/\ Done /\ scen \in ScenNested
         /\ TotalRan({j \in DOMAIN ran : Len(j) = 4})
               = scen.top.size * scen.top.body.call.size)

C4_Witness ==
    /\ Done /\ scen \in ScenNested /\ scen.desired = 2
    /\ scen.top.size = MaxExtent /\ scen.top.body.call.size = MaxExtent
    /\ TotalRan({j \in DOMAIN ran : Len(j) = 4}) = MaxExtent * MaxExtent

\* C5: a single blocking Job with min_threads = k and extent 1, submitted
\* on a pool whose desired thread count is below k, makes enqueue spawn
\* workers until threads_created >= k - 1, and the call completes.
C5_BlockingJobCompletes ==
    /\ [](scen \in ScenBlocking /\ wq.initialized
             => wq.threads_created >= scen.top.tasks[1].min_threads - 1)
    /\ (scen \in ScenBlocking) ~> (Done /\ <<0, 0>> \in DOMAIN ran /\ ran[<<0, 0>>] = <<0>>)

C5_Witness ==
    /\ Done /\ scen \in ScenBlocking /\ scen.desired = 2
    /\ scen.top.tasks[1].min_threads = MaxWorkers + 1
    /\ wq.threads_created = MaxWorkers
    /\ ran[<<0, 0>>] = <<0>>

\* C6: for a Job whose iterations each need count c of a semaphore that
\* was initialised to v, (iterations started) * c never exceeds v plus
\* the total released so far; so a consumer that needs 1 per iteration of
\* a semaphore that started at 0 has not started iteration k before k+1
\* were released.
C6_SemaphoreGate ==
    \A j \in DOMAIN job : Len(job[j].task.sems) = 1 =>
        LET sid == job[j].task.sems[1][1]
            c == job[j].task.sems[1][2]
        IN  /\ Len(ran[j]) * c <= scen.sem[sid] + released[sid]
            /\ scen \in ScenProdCons =>
                   \A k \in Range(ran[j]) : released[sid] >= (k + 1) * c

C6_Witness ==
    /\ scen \in ScenProdCons /\ scen.top.tasks[1].extent = MaxExtent
    /\ released[1] = 1
    /\ ran[<<0, 1>>] = <<0>>
    /\ \E t \in Threads : pc[t] = "restore"

\* C7: the producer/consumer submission always terminates, with status 0.
C7_ProducerConsumerTerminates ==
    (scen \in ScenProdCons /\ scen.top.tasks[2].fail = {})
        ~> (Done /\ <<0>> \in DOMAIN ret /\ ret[<<0>>] = 0)

C7_Witness ==
    /\ Done /\ scen \in ScenProdCons /\ scen.top.tasks[1].extent = MaxExtent
    /\ scen.top.tasks[2].fail = {}
    /\ ret[<<0>>] = 0 /\ released[1] = MaxExtent /\ sem[1] = 0
    /\ \E t \in Workers : Asleep(t)

\* C8: the iterations of a serial Job are handed to its task function in
\* strictly increasing index order, and no two threads are ever inside
\* the Job at the same time.
C8_SerialOrder ==
    \A j \in DOMAIN job : job[j].task.serial =>
        /\ Increasing(ran[j])
        /\ Cardinality({t \in Threads : Executing(t, j)}) <= 1

C8_Witness ==
    /\ scen \in ScenProdCons /\ wq.threads_created >= 1
    /\ job[<<0, 1>>].task.serial /\ ran[<<0, 1>>] = <<0>>
    /\ <<0, 1>> \in Range(wq.jobs) /\ job[<<0, 1>>].task.extent = 1
    /\ \E t \in Threads : pc[t] = "scan"

\* C9: the status a call returns is 0 exactly if every iteration of its
\* Jobs returned 0, and a non-zero status it returns is one that some
\* iteration returned.
C9_StatusIffAllZero ==
    \A c \in DOMAIN ret :
        /\ ret[c] = 0 <=> StatusesOf(c) \subseteq {0}
        /\ ret[c] # 0 => ret[c] \in StatusesOf(c)

\* C10: when a call whose iteration returned non-zero has returned, every
\* iteration of each Job the call initialised has been handed to the task
\* function exactly once, for serial Jobs too: a failure cancels nothing.
C10_FailureCancelsNothing ==
    \A c \in DOMAIN ret : (\E x \in StatusesOf(c) : x # 0) =>
        \A j \in JobsOfCall(c) : job[j].valid =>
            NoDup(ran[j]) /\ Range(ran[j]) = RangeOf(j)

C10_Witness ==
    /\ Done /\ scen \in ScenProdCons /\ scen.top.tasks[2].serial
    /\ scen.top.tasks[2].fail = {0} /\ scen.top.tasks[2].extent = MaxExtent
    /\ ret[<<0>>] = -7
    /\ Range(ran[<<0, 0>>]) = 0..(MaxExtent - 1)
    /\ ran[<<0, 1>>] = [k \in 1..MaxExtent |-> k - 1]

----------------------------------------------------------------------------
(* C11 .. C20 *)

\* the calls that have been entered: those with a Job and those that returned
CallsMade == {CallOf(j) : j \in DOMAIN job} \cup DOMAIN ret

\* the tasks of a parallel_tasks call that have iterations, in input order
Positive(tasks) == SelectSeq(tasks, LAMBDA x : x.extent > 0)

\* Job j carries descriptor d: the same fields, and the same end of range
Carries(j, d) ==
    /\ [job[j].task EXCEPT !.min = d.min, !.extent = d.extent] = d
    /\ job[j].task.min + job[j].task.extent = d.min + d.extent

\* C11: the Jobs of a parallel_tasks call are, in order, the input tasks
\* with extent > 0: as many Jobs as such tasks, each initialised and
\* carrying its task's descriptor.
C11_SubmitsExactlyPositive ==
    \A c \in CallsMade : CallDescOf(c).kind = "pt" =>
        LET pos == Positive(CallDescOf(c).tasks) IN
        /\ Cardinality(JobsOfCall(c)) = Len(pos)
        /\ \A i \in 1..Len(pos) :
               /\ (c \o <<i - 1>>) \in DOMAIN job
               /\ job[c \o <<i - 1>>].valid
               /\ Carries(c \o <<i - 1>>, pos[i])

\* the program is one parallel_tasks call whose tasks all have extent <= 0
AllSkipped ==
    /\ scen.top.kind = "pt" /\ scen.rest = <<>>
    /\ \A i \in DOMAIN scen.top.tasks : scen.top.tasks[i].extent <= 0

\* C12: a parallel_tasks call whose tasks all have extent <= 0 returns 0
\* and has no effect: no Job exists, the queue is as it was (not
\* initialised, nothing linked, no counter moved) and no thread is spawned.
C12_AllSkippedNoEffect ==
    AllSkipped =>
        /\ job = <<>>
        /\ wq = [jobs |-> <<>>, threads_created |-> 0, desired_threads_working |-> 0,
                 a_team_size |-> 0, target_a_team_size |-> 0, workers_sleeping |-> 0,
                 owners_sleeping |-> 0, shutdown |-> FALSE, initialized |-> FALSE]
        /\ \A t \in Threads \ {0} : pc[t] = "unspawned"
        /\ <<0>> \in DOMAIN ret => ret[<<0>>] = 0

\* thread t is at a par_for call with size <= 0
AtEmptyParFor(t) ==
    /\ pc[t] = "body"
    /\ BodyOf(S, t).op = "call"
    /\ BodyOf(S, t).call.kind = "pf"
    /\ BodyOf(S, t).call.size <= 0

\* C13: the step in which a par_for with size <= 0 returns records status 0
\* and changes nothing else: the queue, the Jobs, the holder of the mutex
\* and the position of every other thread are what they were.
C13_EmptyParForNoEffect ==
    [][\A t \in Threads :
         (AtEmptyParFor(t) /\ CallId(S, t) \in DOMAIN ret') =>
             /\ ret'[CallId(S, t)] = 0
             /\ wq' = wq /\ job' = job /\ mutex' = mutex
             /\ \A u \in Threads \ {t} : pc'[u] = pc[u]]_vars

\* an empty loop has returned on a queue that is initialised and has workers
C13_Witness ==
    /\ scen \in ScenSequence /\ scen.rest[1].size <= 0
    /\ <<1>> \in DOMAIN ret
    /\ wq.initialized /\ wq.threads_created > 0 /\ wq.workers_sleeping > 0

\* the Job thread t is working on in its innermost dispatch loop
CurrentJob(t) == fr[t][Len(fr[t])].cur

\* workers other than t that are in the sleep branch of the dispatch loop
\* (waiting, or woken and about to scan again)
IdleWorkers(t) ==
    {u \in Threads \ {t} : pc[u] \in {"waitA", "waitB", "wokeA", "wokeB"}}

\* owners other than t that sleep in the dispatch loop waiting for Job j
IdleOwners(t, j) ==
    {u \in Threads \ {t} : /\ pc[u] \in {"waitO", "wokeO"}
                             /\ owned_job(fr[u][Len(fr[u])]) = j}

\* C14: in the step in which a thread leaves the scan with a may_block Job
\* of min_threads k as its current Job, at least k - 1 other threads are
\* idle in the dispatch loop and free to run that Job: sleeping workers,
\* and the Job's owner if it sleeps.
C14_MinThreadsGate ==
    [][\A t \in Threads :
         (pc[t] = "scan" /\ pc'[t] \in {"body", "serial"}) =>
             LET j == CurrentJob(t)' IN
             job[j].task.may_block =>
                 job[j].task.min_threads - 1
                     <= Cardinality(IdleWorkers(t)) + Cardinality(IdleOwners(t, j))]_vars

\* a thread runs an iteration of a blocking Job that needs two threads
C14_Witness ==
    \E t \in Threads :
        /\ pc[t] = "body" /\ fr[t] # <<>> /\ CurrentJob(t) \in DOMAIN job
        /\ job[CurrentJob(t)].task.may_block
        /\ job[CurrentJob(t)].task.min_threads >= 2
        /\ job[CurrentJob(t)].active_workers > 0

\* thread t runs its innermost dispatch loop as the owner of a Job
IsOwner(t) == fr[t] # <<>> /\ fr[t][Len(fr[t])].kind # "worker"

\* the Job the owner t is waiting for
OwnedJob(t) == owned_job(fr[t][Len(fr[t])])

\* C15: in the step in which an owner leaves the scan with a Job claimed,
\* that Job has the parent token of the Job the owner waits for, or it is
\* not a blocking Job.
C15_OwnerClaims ==
    [][\A t \in Threads :
         (IsOwner(t) /\ pc[t] = "scan" /\ pc'[t] \in {"body", "serial"}) =>
             LET j == CurrentJob(t)' IN
             \/ job[j].parent = job[OwnedJob(t)].parent
             \/ ~job[j].task.may_block]_vars

\* an owner runs an iteration of a non-blocking Job of another submission
C15_Witness ==
    \E t \in Threads :
        /\ IsOwner(t) /\ pc[t] = "body" /\ CurrentJob(t) \in DOMAIN job
        /\ job[CurrentJob(t)].active_workers > 0
        /\ job[CurrentJob(t)].parent # job[OwnedJob(t)].parent
        /\ ~job[CurrentJob(t)].task.may_block

\* the Jobs linked by this step
Enqueued == (DOMAIN job') \ DOMAIN job

\* C16: in a step that enqueues an initialised Job with may_block false,
\* every owner that sleeps on wake_owners is woken.
C16_OwnerWokenForStealable ==
    [][(\E j \in Enqueued : job'[j].valid /\ ~job'[j].task.may_block) =>
           \A u \in Threads : pc[u] = "waitO" => pc'[u] = "wokeO"]_vars

\* workers_to_wake of the batch linked by this step
EnqueuedWorkersToWake ==
    LET c == CallOf(CHOOSE j \in Enqueued : TRUE)
    IN  BatchWorkersToWake([i \in 1..Cardinality(Enqueued) |-> job'[c \o <<i - 1>>]])

\* the workers this step takes out of halide_cond_wait
WorkersWoken ==
    {u \in Threads : pc[u] \in {"waitA", "waitB"} /\ pc'[u] \in {"wokeA", "wokeB"}}

\* no owner sleeps and every worker created so far waits on a condition
\* variable
NonNested ==
    /\ wq.initialized /\ wq.threads_created > 0
    /\ wq.owners_sleeping = 0
    /\ \A u \in 1..wq.threads_created : pc[u] \in {"waitA", "waitB"}

\* C17: an enqueue made when no owner sleeps and every worker sleeps, with
\* workers_to_wake at most workers_sleeping, wakes at most workers_to_wake
\* workers.
C17_WakeThrottle ==
    [][(Enqueued # {} /\ NonNested /\ EnqueuedWorkersToWake <= wq.workers_sleeping) =>
           Cardinality(WorkersWoken) <= EnqueuedWorkersToWake]_vars

\* C18: the number of worker threads created never exceeds the capacity
\* of the threads array.
C18_ThreadsWithinCapacity == wq.threads_created <= MAX_THREADS

\* thread t is at a set_num_threads call
AtSetNumThreads(t) == pc[t] = "body" /\ BodyOf(S, t).op = "snt"

\* n limited to 1 .. MAX_THREADS
Clamped(n) == Max({1, Min({n, MAX_THREADS})})

\* C19: the step of set_num_threads(n) returns the value
\* desired_threads_working had and leaves it at n limited to
\* 1 .. MAX_THREADS, with the default from the environment in place of
\* n = 0; and when set_num_threads(0) comes right after set_num_threads(k)
\* it returns k limited to 1 .. MAX_THREADS.
C19_SetNumThreads ==
    [][\A t \in Threads :
         (AtSetNumThreads(t) /\ CallId(S, t) \in DOMAIN ret') =>
             LET k == OpsDone(S) + 1
                 n == Ops[k].n
             IN  /\ ret'[CallId(S, t)] = wq.desired_threads_working
                 /\ wq'.desired_threads_working =
                        Clamped(IF n = 0 THEN scen.desired ELSE n)
                 /\ (k > 1 /\ n = 0 /\ Ops[k - 1].kind = "snt" /\ Ops[k - 1].n # 0) =>
                        ret'[CallId(S, t)] = Clamped(Ops[k - 1].n)]_vars

\* set_num_threads(k) with k above MAX_THREADS, then set_num_threads(0)
\* under a default of 0: the second call returned MAX_THREADS and left 1
C19_Witness ==
    /\ scen \in ScenSetThreads /\ Done
    /\ scen.desired = 0
    /\ Ops[1].kind = "snt" /\ Ops[1].n > MAX_THREADS
    /\ Ops[2].kind = "snt" /\ Ops[2].n = 0
    /\ ret[<<1>>] = MAX_THREADS
    /\ wq.desired_threads_working = 1

\* the worker threads that were created
Created == 1..wq.threads_created

\* C20: once the program's thread has set shutdown, broadcast the three
\* condition variables and started to join, every worker exits, the joins
\* complete and initialized is false; whatever the workers were doing.
C20_ShutdownCompletes ==
    (pc[0] = "join") ~>
        (/\ pc[0] # "join" /\ ~wq.initialized
         /\ \A u \in Created : pc[u] = "exited")

\* shutdown has been set and the joins have started: one worker has exited
\* because of it while another is still inside a task body
C20_Witness ==
    /\ pc[0] = "join" /\ wq.shutdown
    /\ \E u \in Created : pc[u] = "exited"
    /\ \E u \in Created : pc[u] = "body"

----------------------------------------------------------------------------
(* C21 .. C30 *)

\* thread t is at a shutdown_thread_pool call
AtShutdown(t) == pc[t] = "body" /\ BodyOf(S, t).op = "shutdown"

\* C21: the step of a shutdown_thread_pool called while the pool is not
\* initialised (never used, or shut down before) is the whole call: it
\* returns, and the queue, the Jobs, the holder of the mutex and every
\* other thread are what they were.
C21_ShutdownIdempotent ==
    [][\A t \in Threads :
         (AtShutdown(t) /\ ~wq.initialized /\ (pc'[t] # pc[t] \/ ret' # ret)) =>
             /\ ret' = (CallId(S, t) :> 0) @@ ret
             /\ pc'[t] # "join"
             /\ wq' = wq /\ job' = job /\ mutex' = mutex
             /\ \A u \in Threads \ {t} : pc'[u] = pc[u]]_vars

\* a pool that ran a loop has been shut down twice
C21_Witness ==
    /\ scen \in ScenShutdown /\ Done
    /\ Len(Ops) >= 3 /\ Ops[Len(Ops) - 1].kind = "shutdown"
    /\ wq.threads_created > 0 /\ wq.shutdown /\ ~wq.initialized
    /\ \A u \in Created : pc[u] = "exited"

Sems == DOMAIN scen.sem

\* thread t is inside a try_acquire that has decremented and will give back
MidAcquire(t) == pc[t] \in {"restore", "serial_restore"}

\* the (semaphore, count) of the try_acquire thread t is inside
PendingSem(t) ==
    LET f == fr[t][Len(fr[t])]
        j == IF pc[t] = "restore" THEN job[wq.jobs[f.cursor]] ELSE job[f.cur]
    IN  j.task.sems[j.next_semaphore + 1]

\* the threads inside a failing try_acquire on semaphore sid
Failing(sid) == {t \in Threads : MidAcquire(t) /\ PendingSem(t)[1] = sid}

\* C22: taken from a state in which no try_acquire on the semaphore is in
\* progress, a try_acquire(n) succeeds exactly when value >= n; when it
\* succeeds value has gone down by n and is not negative; when it fails it
\* has taken n and gives n back, so that value is what it was if nothing
\* else touched the semaphore in between; a release(n) raises value by n.
C22_SemaphoreSequential ==
    [][\A sid \in Sems :
         /\ (Failing(sid) = {} /\ sem'[sid] < sem[sid]) =>
                LET n == sem[sid] - sem'[sid] IN
                /\ (Failing(sid)' = {}) <=> (sem[sid] >= n)
                /\ (Failing(sid)' = {}) => sem'[sid] >= 0
                /\ (Failing(sid)' # {}) =>
                       /\ Cardinality(Failing(sid)') = 1
                       /\ \A t \in Failing(sid)' : PendingSem(t)'[2] = n
         /\ (Cardinality(Failing(sid)) = 1 /\ Failing(sid)' = {}) =>
                \A t \in Failing(sid) : sem'[sid] = sem[sid] + PendingSem(t)[2]
         /\ (sem'[sid] > sem[sid] /\ Failing(sid)' = Failing(sid)) =>
                sem'[sid] - sem[sid] = released'[sid] - released[sid]]_vars

\* a try_acquire has failed on an empty semaphore and given back, and a
\* later one has succeeded after a release
C22_Witness ==
    /\ scen \in ScenProdCons
    /\ \E t \in Threads : MidAcquire(t) /\ sem[1] = -1
    /\ released[1] = 1 /\ ran[<<0, 1>>] = <<0>>

\* C23: a try_acquire is one indivisible step for every other operation on
\* the semaphore: no semaphore is negative in any reachable state, and the
\* value a release gets back from its add never includes the decrement of
\* a try_acquire that is about to fail.
C23_TryAcquireIndivisible ==
    [][\A sid \in Sems :
         /\ sem[sid] >= 0
         /\ (released'[sid] > released[sid]) => Failing(sid) = {}]_vars

\* no try_acquire on semaphore sid is between its two atomic operations
\* (a release is a single atomic operation on the value)
Quiescent(sid) == Failing(sid) = {}

\* C24: whenever no operation on a semaphore is in progress, its value is
\* the initial value, minus all that successful try_acquires took, plus
\* all that was released; and it is not negative.
C24_SemaphoreBalance ==
    \A sid \in Sems : Quiescent(sid) =>
        /\ sem[sid] = scen.sem[sid] - acquired[sid] + released[sid]
        /\ sem[sid] >= 0

\* a run has ended in which a serial consumer took, one at a time, the two
\* that the producer released
C24_Witness ==
    /\ scen \in ScenProdCons /\ scen.top.tasks[2].serial
    /\ Quiescent(1) /\ released[1] = 2 /\ acquired[1] = 2 /\ sem[1] = 0
    /\ Done

\* the initialised Jobs on the stack whose next semaphore is sid
WaitingOn(sid) ==
    {j \in Range(wq.jobs) :
        /\ job[j].valid
        /\ job[j].next_semaphore < Len(job[j].task.sems)
        /\ job[j].task.sems[job[j].next_semaphore + 1][1] = sid}

\* the count Job j needs of its next semaphore
Needs(j) == job[j].task.sems[job[j].next_semaphore + 1][2]

\* C25: a release that takes a semaphore from below the count a linked Job
\* needs of it to at least that count goes on to broadcast wake_a_team and
\* wake_owners.
C25_ReleaseWakes ==
    [][\A sid \in Sems :
         (/\ released'[sid] > released[sid]
          /\ \E j \in WaitingOn(sid) : sem[sid] < Needs(j) /\ sem'[sid] >= Needs(j))
         => \E t \in Threads : pc[t] # "release_wake" /\ pc'[t] = "release_wake"]_vars

\* C26: whenever the queue mutex is free, every Job on the stack has
\* iterations left (so it is running), and no Job is on the stack twice.
C26_StackJobsRunning ==
    mutex = NoThread =>
        /\ \A j \in Range(wq.jobs) : job[j].task.extent > 0 /\ running(job[j])
        /\ NoDup(wq.jobs)

\* the workers that have moved themselves to the B team and have not yet
\* counted themselves back in
OnBTeam == {u \in Threads : pc[u] \in {"waitB", "wokeB"}}

ATeamCounted ==
    wq.initialized =>
        /\ 0 <= wq.a_team_size /\ wq.a_team_size <= wq.threads_created
        /\ wq.a_team_size = wq.threads_created - Cardinality(OnBTeam)

\* C27: while the pool is initialised, a_team_size is between 0 and
\* threads_created and is threads_created less the workers that are on the
\* B team; and a step that creates workers raises threads_created and
\* a_team_size by the same number.
C27_ATeamSize ==
    [][/\ ATeamCounted /\ ATeamCounted'
       /\ (wq.initialized /\ wq'.threads_created > wq.threads_created) =>
              wq'.a_team_size - wq.a_team_size
                  = wq'.threads_created - wq.threads_created]_vars

\* a worker is on the B team while another is not
C27_Witness ==
    /\ wq.initialized /\ wq.threads_created = 2 /\ wq.a_team_size = 1
    /\ Cardinality(OnBTeam) = 1

\* the workers between workers_sleeping++ and workers_sleeping--
WorkersInSleep == {u \in Threads : pc[u] \in {"waitA", "waitB", "wokeA", "wokeB"}}

\* the owners between owners_sleeping++ and owners_sleeping--
OwnersInWait == {u \in Threads : pc[u] \in {"waitO", "wokeO"}}

\* the threads that are in a dispatch loop entered with an owned Job
OwnersInPool == {u \in Threads : \E d \in 1..Len(fr[u]) : fr[u][d].kind # "worker"}

\* C28: workers_sleeping is the number of workers inside the sleep branch
\* and is between 0 and threads_created; owners_sleeping is the number of
\* owners inside their wait and is between 0 and the number of owners in
\* the pool; owner_is_sleeping is set on a Job only while the owner that
\* waits for it is inside that wait.
C28_SleepCounters ==
    /\ 0 <= wq.workers_sleeping /\ wq.workers_sleeping <= wq.threads_created
    /\ wq.workers_sleeping = Cardinality(WorkersInSleep)
    /\ 0 <= wq.owners_sleeping /\ wq.owners_sleeping <= Cardinality(OwnersInPool)
    /\ wq.owners_sleeping = Cardinality(OwnersInWait)
    /\ \A j \in DOMAIN job :
           job[j].owner_is_sleeping => \E u \in OwnersInWait : OwnedJob(u) = j

\* a worker and two owners are asleep at once
C28_Witness ==
    /\ wq.workers_sleeping >= 1 /\ wq.owners_sleeping = 2
    /\ Cardinality({j \in DOMAIN job : job[j].owner_is_sleeping}) = 2

\* the Jobs of other submissions that are linked or have an iteration running
LiveOthers == {j \in DOMAIN job \ Enqueued : j \in Range(wq.jobs) \/ running(job[j])}

\* C29: a step that enqueues the Jobs 0 .. n-1 of a call on a stack Q
\* leaves the stack as Job 0, Job 1, .., Job n-1 followed by Q (Q being
\* empty if the queue was not initialised), and the Jobs have one parent
\* token, which no live Job of another submission has.
C29_EnqueueOrder ==
    [][Enqueued # {} =>
         LET c == CallOf(CHOOSE j \in Enqueued : TRUE)
             n == Cardinality(Enqueued)
             Q == IF wq.initialized THEN wq.jobs ELSE <<>>
         IN  /\ wq'.jobs = [i \in 1..n |-> c \o <<i - 1>>] \o Q
             /\ \A a, b \in Enqueued : job'[a].parent = job'[b].parent
             /\ \A a \in Enqueued : \A b \in LiveOthers :
                    job'[a].parent # job'[b].parent]_vars

\* two Jobs of one call sit on top of a Job of another call
C29_Witness ==
    /\ Len(wq.jobs) = 3
    /\ CallOf(wq.jobs[1]) = CallOf(wq.jobs[2])
    /\ wq.jobs[1][Len(wq.jobs[1])] = 0 /\ wq.jobs[2][Len(wq.jobs[2])] = 1
    /\ CallOf(wq.jobs[3]) # CallOf(wq.jobs[1])
    /\ job[wq.jobs[1]].parent = job[wq.jobs[2]].parent
    /\ job[wq.jobs[3]].parent # job[wq.jobs[1]].parent

\* the target the wake decision gives for the batch linked by this step,
\* from the counters as the step leaves them
DecidedTarget ==
    IF \/ wq'.owners_sleeping > 0
       \/ wq'.workers_sleeping < wq'.threads_created
       \/ EnqueuedWorkersToWake > wq'.workers_sleeping
    THEN wq'.threads_created ELSE EnqueuedWorkersToWake

\* C30: a step that enqueues a batch sets target_a_team_size as the wake
\* decision says, wakes all of wake_a_team, wakes wake_b_team exactly when
\* the target is above a_team_size, and wake_owners exactly when in
\* addition a Job of the batch is non-blocking; and the target is between
\* 0 and threads_created.
C30_WakeDecision ==
    [][Enqueued # {} =>
         /\ wq'.target_a_team_size = DecidedTarget
         /\ \A u \in Threads :
                /\ pc[u] = "waitA" => pc'[u] = "wokeA"
                /\ pc[u] = "waitB" =>
                       (pc'[u] = "wokeB" <=> DecidedTarget > wq'.a_team_size)
                /\ pc[u] = "waitO" =>
                       (pc'[u] = "wokeO" <=>
                           /\ DecidedTarget > wq'.a_team_size
                           /\ \E j \in Enqueued : ~job'[j].task.may_block)
         /\ 0 <= wq'.target_a_team_size
         /\ wq'.target_a_team_size <= wq'.threads_created]_vars

----------------------------------------------------------------------------
(* C31 .. C38 *)

\* min_threads of the batch linked by this step
EnqueuedMinThreads ==
    LET c == CallOf(CHOOSE j \in Enqueued : TRUE)
    IN  BatchMinThreads([i \in 1..Cardinality(Enqueued) |-> job'[c \o <<i - 1>>]])

\* the threads this step creates
Spawned == {u \in Threads : pc[u] = "unspawned" /\ pc'[u] # "unspawned"}

\* C31: a step that enqueues a batch leaves threads_created at least
\* desired_threads_working - 1 and at least M - 1, M the sum of min_threads
\* over the blocking Jobs of the batch; it creates no thread when the
\* initialised pool had that many already; only an enqueue creates
\* threads; and threads_created does not go down while the pool stays
\* initialised.
C31_SpawnEnough ==
    [][/\ Enqueued # {} =>
              /\ wq'.threads_created >= wq'.desired_threads_working - 1
              /\ wq'.threads_created >= EnqueuedMinThreads - 1
              /\ (/\ wq.initialized
                  /\ wq.threads_created >= wq.desired_threads_working - 1
                  /\ wq.threads_created >= EnqueuedMinThreads - 1) =>
                     wq'.threads_created = wq.threads_created /\ Spawned = {}
       /\ Enqueued = {} => Spawned = {}
       /\ wq.initialized /\ wq'.initialized =>
              wq'.threads_created >= wq.threads_created]_vars

\* the desired count was lowered below the threads that exist, and the
\* next enqueue has been made
C31_Witness ==
    /\ scen \in ScenLowerThreads /\ OpsDone(S) = 2 /\ <<2, 0>> \in DOMAIN job
    /\ wq.desired_threads_working = 1
    /\ wq.threads_created = MaxDesired - 1

\* the iterations of Job j for which make_runnable has returned true:
\* those handed to the task function and those a thread has gathered for
\* the next batch of a serial Job
Claimed(j) ==
    LET T == {t \in Threads : /\ fr[t] # <<>> /\ pc[t] \in {"serial", "serial_restore"}
                              /\ CurrentJob(t) = j}
    IN  Len(ran[j]) + (IF T = {} THEN 0 ELSE fr[CHOOSE t \in T : TRUE][Len(fr[CHOOSE t \in T : TRUE])].iters)

\* the preconditions on semaphore sid, as (Job, index) pairs
Preconditions(sid) ==
    {x \in (DOMAIN job) \X (1..2) :
        x[2] <= Len(job[x[1]].task.sems) /\ job[x[1]].task.sems[x[2]][1] = sid}

\* what the preconditions in P have taken if each was acquired once per
\* iteration made runnable, and once more if it is among those held for
\* the iteration that is not runnable yet
RECURSIVE TakenOnce(_)
TakenOnce(P) ==
    IF P = {} THEN 0
    ELSE LET x == CHOOSE y \in P : TRUE
             j == job[x[1]]
         IN  j.task.sems[x[2]][2]
                 * (Claimed(x[1]) + (IF j.next_semaphore >= x[2] THEN 1 ELSE 0))
             + TakenOnce(P \ {x})

AcquiredOnce == \A sid \in Sems : acquired[sid] = TakenOnce(Preconditions(sid))

\* C32: next_semaphore of a Job moves only from i to i + 1, when
\* precondition i has been acquired and is not the last, or to 0, when the
\* last has been acquired and an iteration of the Job is thereby made
\* runnable; a try_acquire that fails leaves it at i, and nothing acquired
\* is given back.  So what has been taken from a semaphore is its count
\* once for every iteration made runnable, and once for a Job that holds
\* the precondition while a later one of the same iteration is missing.
C32_MakeRunnable ==
    [][/\ AcquiredOnce /\ AcquiredOnce'
       /\ \A j \in DOMAIN job :
              LET i == job[j].next_semaphore
                  sems == job[j].task.sems
              IN  /\ 0 <= i /\ i < Max({1, Len(sems)})
                  /\ job'[j].next_semaphore # i =>
                         \/ /\ job'[j].next_semaphore = i + 1 /\ i + 1 < Len(sems)
                            /\ acquired'[sems[i + 1][1]] = acquired[sems[i + 1][1]] + sems[i + 1][2]
                            /\ Claimed(j)' = Claimed(j)
                         \/ /\ job'[j].next_semaphore = 0 /\ i + 1 = Len(sems)
                            /\ acquired'[sems[i + 1][1]] = acquired[sems[i + 1][1]] + sems[i + 1][2]
                            /\ Claimed(j)' = Claimed(j) + 1
                  /\ Len(sems) > 0 =>
                         /\ Claimed(j)' \in {Claimed(j), Claimed(j) + 1}
                         /\ Claimed(j)' = Claimed(j) + 1 =>
                                i + 1 = Len(sems) /\ job'[j].next_semaphore = 0
       /\ \A t \in Threads : (MidAcquire(t) # MidAcquire(t)') =>
              /\ \A j \in DOMAIN job : job'[j].next_semaphore = job[j].next_semaphore
              /\ acquired' = acquired]_vars

\* the consumer holds its first precondition, has failed on the second
\* and given back, and the Job is linked with next_semaphore 1
C32_Witness ==
    /\ scen \in ScenTwoSems /\ <<0, 1>> \in Range(wq.jobs)
    /\ job[<<0, 1>>].next_semaphore = 1
    /\ acquired[1] = 2 /\ acquired[2] = 1 /\ released[2] = 1
    /\ ran[<<0, 1>>] = <<0>>
    /\ \A t \in Threads : ~MidAcquire(t)

\* thread t claims an iteration of a non-serial Job in this step
ClaimsIteration(t) == pc[t] = "scan" /\ pc'[t] = "body"

\* the indices handed out for Job j are consecutive and go up
ClaimedInOrder(j) == \A k \in 1..Len(ran[j]) : ran[j][k] = ran[j][1] + k - 1

\* C33: a thread that scans the stack holds the queue mutex; the step in
\* which it claims an iteration of a non-serial Job is taken with the mutex
\* held and gives it up; the claimer gets the Job's min, min goes up by 1,
\* extent down by 1, and the Job leaves the stack exactly if extent has
\* become 0; no other Job's range or position changes.  So the indices
\* of a Job are claimed one after the other in increasing order, in the
\* order in which the claimers held the mutex.
C33_ClaimStep ==
    [][\A t \in Threads :
         /\ pc[t] = "scan" => mutex = t
         /\ ClaimsIteration(t) =>
                \E j \in DOMAIN job :
                /\ j = CurrentJob(t)'
                /\ mutex' = NoThread
                /\ j \in Range(wq.jobs) /\ ~job[j].task.serial
                /\ fr'[t][Len(fr'[t])].idx = job[j].task.min
                /\ job'[j].task.min = job[j].task.min + 1
                /\ job'[j].task.extent = job[j].task.extent - 1
                /\ ran'[j] = Append(ran[j], job[j].task.min)
                /\ wq'.jobs = IF job'[j].task.extent = 0
                              THEN SelectSeq(wq.jobs, LAMBDA x : x # j) ELSE wq.jobs
                /\ \A k \in DOMAIN job \ {j} :
                       job'[k].task = job[k].task /\ ran'[k] = ran[k]
                /\ ClaimedInOrder(j)']_vars

\* two threads have each claimed an iteration of one flat loop, the second
\* claim unlinked the Job, and both are in their iterations
C33_Witness ==
    /\ scen \in ScenFlat /\ scen.top.min = 3
    /\ <<0, 0>> \in DOMAIN job /\ ran[<<0, 0>>] = <<3, 4>>
    /\ <<0, 0>> \notin Range(wq.jobs) /\ job[<<0, 0>>].task.extent = 0
    /\ \E t, u \in Threads :
           /\ t # u /\ pc[t] = "body" /\ pc[u] = "body"
           /\ fr[t] # <<>> /\ fr[u] # <<>>
           /\ CurrentJob(t) = <<0, 0>> /\ CurrentJob(u) = <<0, 0>>
           /\ fr[t][Len(fr[t])].idx = 3 /\ fr[u][Len(fr[u])].idx = 4

\* thread t is in code that a task function runs, or between two lock
\* regions of the dispatch loop
OutsideLock(t) ==
    pc[t] \in {"body", "serial", "serial_restore", "serial_run", "serial_lock",
               "relock", "release_wake", "join"}

\* thread t works on a serial Job without the mutex
InSerialBranch(t) ==
    /\ fr[t] # <<>>
    /\ \/ pc[t] \in {"serial", "serial_restore", "serial_run", "serial_lock"}
       \/ pc[t] = "release_wake" /\ job[CurrentJob(t)].task.serial

\* no thread is in a task function with the mutex held, and a Job that a
\* thread updates in the serial branch is not linked
BodiesRunUnlocked ==
    /\ \A t \in Threads : OutsideLock(t) => mutex # t
    /\ \A t \in Threads : InSerialBranch(t) => CurrentJob(t) \notin Range(wq.jobs)

\* C34: no thread holds the queue mutex while it runs a task body, the
\* fields of a Job that is linked in the stack are used only by the holder
\* of the mutex, and no step uses a field of the work queue without
\* holding the mutex.
C34_MutexDiscipline == BodiesRunUnlocked /\ unlocked = {}

\* thread t is an owner in its wait, or woken from it, for a Job that has
\* finished
OwnerOfFinished(t, where) ==
    pc[t] = where /\ IsOwner(t) /\ ~running(job[OwnedJob(t)])

\* the owner t has left the dispatch loop it entered for its Job: its
\* call has returned, or it has gone on to wait for the next Job of its
\* batch
LeavesLoop(t) ==
    \/ Len(fr'[t]) < Len(fr[t])
    \/ /\ Len(fr'[t]) = Len(fr[t])
       /\ fr'[t][Len(fr[t])].i > fr[t][Len(fr[t])].i

\* C35: an owner waits on wake_owners only with owner_is_sleeping set on
\* its Job and only while the Job is running; the step that ends the
\* Job's last active iteration while owner_is_sleeping is set wakes every
\* thread that waits on wake_owners; a woken owner whose Job has finished
\* takes its next step, unless the run has become undefined, and with
\* that step it leaves the dispatch loop of the Job.
C35_OwnerWoken ==
    /\ [](\A t \in Threads : pc[t] = "waitO" =>
              /\ IsOwner(t) /\ job[OwnedJob(t)].owner_is_sleeping
              /\ running(job[OwnedJob(t)]))
    /\ [][/\ \A j \in DOMAIN job :
                (running(job[j]) /\ ~running(job'[j]) /\ job[j].owner_is_sleeping) =>
                    /\ job'[j].active_workers = job[j].active_workers - 1
                    /\ \A u \in Threads : pc[u] = "waitO" => pc'[u] = "wokeO"
           /\ \A t \in Threads :
                (OwnerOfFinished(t, "wokeO") /\ pc'[t] # "wokeO") => LeavesLoop(t)]_vars
    /\ \A t \in Threads : OwnerOfFinished(t, "wokeO") ~> (pc[t] # "wokeO" \/ ub)

\* the owner of a flat loop has been woken because a worker reported the
\* last iteration
C35_Witness ==
    /\ scen \in ScenFlat /\ scen.top.size = MaxExtent
    /\ OwnerOfFinished(0, "wokeO")
    /\ Len(ran[<<0, 0>>]) = MaxExtent /\ wq.owners_sleeping = 1

\* the step runs the lazy initialisation of enqueue
Initialises == ~wq.initialized /\ wq'.initialized

\* halide_set_num_threads has returned at least once
SetNumThreadsReturned == \E k \in 1..OpsDone(S) : Ops[k].kind = "snt"

\* the counters after the first enqueue are what the spawn loop and the
\* wake decision make of counters that were zero
CountersFromZero ==
    /\ wq'.threads_created
           = Max({0, wq'.desired_threads_working - 1, EnqueuedMinThreads - 1})
    /\ wq'.a_team_size = wq'.threads_created
    /\ wq'.target_a_team_size = DecidedTarget
    /\ wq'.workers_sleeping = 0 /\ wq'.owners_sleeping = 0

DesiredInRange ==
    (wq.initialized \/ SetNumThreadsReturned) =>
        1 <= wq.desired_threads_working /\ wq.desired_threads_working <= MAX_THREADS

\* C36 as stated: the first enqueue sets desired_threads_working to the
\* default read from the environment, clamped into 1 .. MAX_THREADS, and
\* starts the counters from zero; and once the pool is initialised or
\* set_num_threads has returned, desired_threads_working is within
\* 1 .. MAX_THREADS.
C36_LazyInitFromEnvironment ==
    [][/\ DesiredInRange /\ DesiredInRange'
       /\ Initialises =>
              /\ wq'.desired_threads_working = Clamped(default_desired_num_threads)
              /\ CountersFromZero]_vars

\* C36: the first enqueue sets desired_threads_working to the default
\* read from the environment only if it is still 0, keeps a value that
\* set_num_threads has stored before, clamps the result into
\* 1 .. MAX_THREADS, and starts the counters from zero; and once the pool
\* is initialised or set_num_threads has returned, desired_threads_working
\* is within 1 .. MAX_THREADS.
C36_LazyInit ==
    [][/\ DesiredInRange /\ DesiredInRange'
       /\ Initialises =>
              /\ wq'.desired_threads_working
                     = Clamped(IF wq.desired_threads_working = 0
                               THEN default_desired_num_threads
                               ELSE wq.desired_threads_working)
              /\ CountersFromZero]_vars

\* a pool that had two workers was shut down, told to use one thread and
\* initialised again by the next loop, with no worker
C36_Witness ==
    /\ scen \in ScenLazyInit /\ scen.desired = MaxDesired /\ OpsDone(S) = 3
    /\ wq.initialized /\ wq.desired_threads_working = 1
    /\ wq.threads_created = 0 /\ wq.a_team_size = 0
    /\ <<3, 0>> \in DOMAIN job

\* the threads that work on serial Job j
SerialWorkers(j) == {t \in Threads : InSerialBranch(t) /\ CurrentJob(t) = j}

\* a serial Job is off the stack while a thread works on it, has one
\* active worker then and none otherwise
SerialJobsExclusive ==
    \A j \in DOMAIN job : job[j].task.serial =>
        /\ job[j].active_workers = Cardinality(SerialWorkers(j))
        /\ job[j].active_workers <= 1
        /\ j \in Range(wq.jobs) => job[j].active_workers = 0 /\ job[j].task.extent > 0
        /\ SerialWorkers(j) # {} => j \notin Range(wq.jobs)

\* C37: a serial Job is not on the stack while a thread works on it; the
\* step in which the thread takes the mutex again puts the Job on top of
\* the stack exactly if extent > 0 is left, and changes the stack in no
\* other way; a serial Job has at most one active worker, and none while
\* it is on the stack.
C37_SerialUnlinked ==
    [][/\ SerialJobsExclusive /\ SerialJobsExclusive'
       /\ \A t \in Threads :
              (pc[t] = "serial_lock" /\ pc'[t] # "serial_lock") =>
                  \E j \in DOMAIN job :
                      /\ j = CurrentJob(t)
                      /\ wq'.jobs = IF job[j].task.extent > 0
                                    THEN <<j>> \o wq.jobs ELSE wq.jobs
                      /\ job'[j].active_workers = 0]_vars

\* a serial consumer has run its first iteration, could not take the
\* semaphore for the second and is back on top of the stack
C37_Witness ==
    /\ scen \in ScenProdCons /\ scen.top.tasks[2].serial
    /\ wq.jobs # <<>> /\ Head(wq.jobs) = <<0, 1>>
    /\ job[<<0, 1>>].task.extent = 1 /\ job[<<0, 1>>].active_workers = 0
    /\ ran[<<0, 1>>] = <<0>> /\ sem[1] = 0

\* the claims on Job j that have not been reported: a thread's dispatch
\* loop, at some depth of its stack, is between active_workers++ and
\* active_workers-- for j
OpenClaims(j) ==
    UNION {{<<t, d>> : d \in {e \in 1..Len(fr[t]) : fr[t][e].cur = j}} : t \in Threads}

\* the threads that hold a claim on Job j
Claimers(j) == {t \in Threads : \E d \in 1..Len(fr[t]) : fr[t][d].cur = j}

\* C38 as stated: active_workers of a Job is not negative and is the
\* number of threads that have claimed an iteration or a serial batch of
\* it and have not reported it; so the Job is running while there is such
\* a thread.
C38_ActiveWorkersCountThreads ==
    \A j \in DOMAIN job :
        /\ job[j].active_workers >= 0
        /\ job[j].active_workers = Cardinality(Claimers(j))
        /\ Claimers(j) # {} => running(job[j])

\* C38: active_workers of a Job is not negative and is the number of
\* claims of an iteration or a serial batch of it that have not been
\* reported, where a thread whose task body has entered the pool again
\* can hold a second claim on the same Job; so the Job is running while
\* there is such a claim, also when its extent is 0.
C38_ActiveWorkers ==
    \A j \in DOMAIN job :
        /\ job[j].active_workers >= 0
        /\ job[j].active_workers = Cardinality(OpenClaims(j))
        /\ OpenClaims(j) # {} => running(job[j])

\* a thread inside an iteration of the outer loop has claimed the other
\* iteration of the same loop from the dispatch loop of its inner call
C38_Witness ==
    \E j \in DOMAIN job :
        /\ job[j].task.extent = 0 /\ job[j].active_workers = 2
        /\ Cardinality(Claimers(j)) = 1

====
